---------------------------- MODULE Spec2Model ----------------------------
(***************************************************************************)
(* A model of quill's neuron-manage batch construction                     *)
(* (src/commands/neuron_manage.rs: exec, generate) and of its decoding     *)
(* helper (src/lib/mod.rs: get_idl_string, get_local_candid,               *)
(* get_candid_type).                                                       *)
(*                                                                         *)
(* Spec     one call of exec: the six if-blocks in source order, each      *)
(*          active one running generate, whose two awaited signer calls    *)
(*          are the steps of the model.  The signers are collaborators:    *)
(*          what they return is chosen nondeterministically.               *)
(* SpecIdl  one call of get_idl_string on inputs drawn from bounded sets.  *)
(*                                                                         *)
(* Rust values are written as follows.  Option<T>: None is <<>>, Some(x)   *)
(* is <<x>>.  An enum value is [tag |-> variant, val |-> payload].  A      *)
(* String that the code assembles with push_str/join is a sequence of      *)
(* tokens, each token a TLA+ string; the text a signer returns is one      *)
(* token.  Vec<u8> produced by Encode! is <<"DIDL", value>>: the Candid    *)
(* magic followed by the value, an injective stand-in for the wire bytes.  *)
(***************************************************************************)
EXTENDS Integers, Sequences, FiniteSets, TLC

VARIABLES
    \* ---- exec / generate (neuron_manage.rs)
    pem,              \* &Option<String>, passed through to both signers
    opts,             \* ManageOpts
    pc,               \* "if" | "sign" | "request_status" | "done"
    block,            \* which of the six if-blocks is next (7: the is_empty test)
    args,             \* generate's argument: the encoded payload
    msg_with_req_id,  \* generate's local: what sign returned
    msgs,             \* exec's Vec of bundle entries
    trace,            \* every signer call and return, in order
    result,           \* what the call of exec produced
    \* ---- get_idl_string (lib/mod.rs)
    blob, canister_id, method_name, part, output_type,
    schema,           \* how the bundled .did texts fare in parsing and checking
    ipc,              \* "start" | "resolved" | "done"
    method_type,      \* Option<(TypeEnv, Function)>
    idl_result        \* what the call of get_idl_string produced

exec_vars == <<pem, opts, pc, block, args, msg_with_req_id, msgs, trace, result>>
idl_vars  == <<blob, canister_id, method_name, part, output_type, schema, ipc,
               method_type, idl_result>>
vars == <<exec_vars, idl_vars>>

None == <<>>
Some(x) == <<x>>
IsSome(o) == o # <<>>

(***************************************************************************)
(* Bounds and input sets.                                                  *)
(***************************************************************************)
\* How many different envelopes the ingress signer may return for one input.
NumNonces == 2

NeuronIds == {7, 42}
Principals == {"principal-P", "principal-Q"}
DelaySeconds == {0, 86400}
Pems == {None, Some("PEM")}
SignErrors == {"sign: cannot load identity"}
StatusErrors == {"request_status: cannot load identity"}

(***************************************************************************)
(* Constants of the program.                                               *)
(***************************************************************************)
LEDGER_CANISTER_ID == "ryjl3-tyaaa-aaaaa-aaaba-cai"
GOVERNANCE_CANISTER_ID == "rrkah-fqaaa-aaaaa-aaaaq-cai"

(***************************************************************************)
(* The Candid types of neuron_manage.rs.                                   *)
(***************************************************************************)
NeuronId(id) == [id |-> id]
AddHotKey(p) == [tag |-> "AddHotKey", val |-> [new_hot_key |-> p]]
RemoveHotKey(p) == [tag |-> "RemoveHotKey", val |-> [hot_key_to_remove |-> p]]
StopDissolving == [tag |-> "StopDissolving", val |-> <<>>]
StartDissolving == [tag |-> "StartDissolving", val |-> <<>>]
IncreaseDissolveDelay(n) ==
    [tag |-> "IncreaseDissolveDelay", val |-> [additional_dissolve_delay_seconds |-> n]]
Configure(op) == [tag |-> "Configure", val |-> [operation |-> op]]
Disburse(to, amount) == [tag |-> "Disburse", val |-> [to_account |-> to, amount |-> amount]]
ManageNeuron(id, command) == [id |-> id, command |-> command]

\* Encode!(&v): the Candid bytes of v.
Encode(v) == <<"DIDL", v>>

ManageOpts ==
    [neuron_id : NeuronIds,
     add_hot_key : {None} \cup {Some(p) : p \in Principals},
     remove_hot_key : {None} \cup {Some(p) : p \in Principals},
     additional_dissolve_delay_seconds : {None} \cup {Some(n) : n \in DelaySeconds},
     start_dissolving : BOOLEAN,
     stop_dissolving : BOOLEAN,
     disburse : BOOLEAN]

(***************************************************************************)
(* exec: the six if-blocks, numbered in source order.                      *)
(***************************************************************************)
NumBlocks == 6

BlockCondSwapped(o, b) ==
    CASE b = 1 -> IsSome(o.add_hot_key)
      [] b = 2 -> IsSome(o.remove_hot_key)
      [] b = 3 -> o.start_dissolving
      [] b = 4 -> o.stop_dissolving
      [] b = 5 -> IsSome(o.additional_dissolve_delay_seconds)
      [] b = 6 -> o.disburse

\* The condition of the b-th if-block.
BlockCond(o, b) ==
    CASE b = 1 -> IsSome(o.add_hot_key)
      [] b = 2 -> IsSome(o.remove_hot_key)
      [] b = 3 -> o.stop_dissolving
      [] b = 4 -> o.start_dissolving
      [] b = 5 -> IsSome(o.additional_dissolve_delay_seconds)
      [] b = 6 -> o.disburse

BlockCommandCrossed(o, b) ==
    CASE b = 1 -> Configure(Some(AddHotKey(o.remove_hot_key)))
      [] b = 2 -> Configure(Some(RemoveHotKey(o.remove_hot_key)))
      [] b = 3 -> Configure(Some(StopDissolving))
      [] b = 4 -> Configure(Some(StartDissolving))
      [] b = 5 -> Configure(Some(IncreaseDissolveDelay(
                      o.additional_dissolve_delay_seconds[1])))
      [] b = 6 -> Disburse(None, None)

\* The Command the b-th if-block builds.
BlockCommand(o, b) ==
    CASE b = 1 -> Configure(Some(AddHotKey(o.add_hot_key)))
      [] b = 2 -> Configure(Some(RemoveHotKey(o.remove_hot_key)))
      [] b = 3 -> Configure(Some(StopDissolving))
      [] b = 4 -> Configure(Some(StartDissolving))
      [] b = 5 -> Configure(Some(IncreaseDissolveDelay(
                      o.additional_dissolve_delay_seconds[1])))
      [] b = 6 -> Disburse(None, None)

\* The bytes the b-th if-block hands to generate.
BlockArgs(o, b) ==
    Encode(ManageNeuron(Some(NeuronId(o.neuron_id)), Some(BlockCommand(o, b))))

(***************************************************************************)
(* The signers (crate::commands::sign::sign, request_status::sign), seen   *)
(* from their call sites: what a call may return.                          *)
(***************************************************************************)
\* The envelope text of an ingress message: the value it carries and a nonce.
EnvelopeText(p, cid, meth, a, n) ==
    "ingress(" \o ToString(a[2]) \o "#" \o ToString(n) \o ")"

\* The request identifier derived from the same value and nonce.
RequestIdOf(cid, meth, a, n) ==
    "rid(" \o ToString(a[2]) \o "#" \o ToString(n) \o ")"

\* sign's Ok values: a buffer and an optional request identifier.
SignOkWithId(p, cid, meth, a) ==
    { [ok |-> TRUE, buffer |-> EnvelopeText(p, cid, meth, a, n),
       request_id |-> Some(RequestIdOf(cid, meth, a, n))] : n \in 1..NumNonces }

SignOkWithoutId(p, cid, meth, a) ==
    { [ok |-> TRUE, buffer |-> EnvelopeText(p, cid, meth, a, n),
       request_id |-> None] : n \in 1..NumNonces }

SignErr == { [ok |-> FALSE, error |-> e] : e \in SignErrors }

\* request_status::sign's Ok value: the signed status request as text.
StatusText(p, rid, cid) == "request_status(" \o rid \o ")"

StatusOk(p, rid, cid) == { [ok |-> TRUE, text |-> StatusText(p, rid, cid)] }

StatusErr == { [ok |-> FALSE, error |-> e] : e \in StatusErrors }

SignCall(p, cid, meth, a) ==
    [ev |-> "call", fn |-> "sign", pem |-> p, canister_id |-> cid,
     method_name |-> meth, args |-> a]

StatusCall(p, rid, cid) ==
    [ev |-> "call", fn |-> "request_status", pem |-> p, request_id |-> rid,
     canister_id |-> cid]

Ret(f, r) == [ev |-> "ret", fn |-> f, result |-> r]

(***************************************************************************)
(* Results of a call.                                                      *)
(***************************************************************************)
Running == [kind |-> "running"]
Ok(text) == [kind |-> "ok", value |-> text]
Err(e) == [kind |-> "err", error |-> e]
Panic(m) == [kind |-> "panic", message |-> m]

(***************************************************************************)
(* generate: the text of one bundle entry (lines 192-197).                 *)
(***************************************************************************)
GenerateOutSwapped(buffer, req_status_signed_msg) ==
    <<"{ \"ingress\": ", req_status_signed_msg, ", \"request_status\": ", buffer, "}">>

GenerateOut(buffer, req_status_signed_msg) ==
    <<"{ \"ingress\": ", buffer, ", \"request_status\": ", req_status_signed_msg, "}">>

\* msgs.join(",")
RECURSIVE Join(_)
Join(ms) ==
    IF ms = <<>> THEN <<>>
    ELSE IF Len(ms) = 1 THEN ms[1]
    ELSE ms[1] \o <<",">> \o Join(Tail(ms))

\* exec's tail (lines 175-180)
ExecOut(ms) == <<"[">> \o Join(ms) \o <<"]">>


(***************************************************************************)
(* exec and generate as a state machine.  A step runs the code from one    *)
(* await to the next.                                                      *)
(***************************************************************************)
\* The variables of get_idl_string while exec runs: not in use.
IdlIdle ==
    /\ blob = <<>> /\ canister_id = "" /\ method_name = "" /\ part = ""
    /\ output_type = "" /\ schema = "" /\ ipc = "idle" /\ method_type = None
    /\ idl_result = Running

ExecInit ==
    /\ pem \in Pems
    /\ opts \in ManageOpts
    /\ pc = "if"
    /\ block = 1
    /\ args = <<>>
    /\ msg_with_req_id = None
    /\ msgs = <<>>
    /\ trace = <<>>
    /\ result = Running

Init == ExecInit /\ IdlIdle

\* An if-block whose condition is false (lines 104, 116, 128, 138, 148, 160).
SkipBlock ==
    /\ pc = "if"
    /\ block <= NumBlocks
    /\ ~BlockCond(opts, block)
    /\ block' = block + 1
    /\ UNCHANGED <<pem, opts, pc, args, msg_with_req_id, msgs, trace, result, idl_vars>>

\* An if-block whose condition is true: Encode!, then generate up to its
\* first await, the call of sign (lines 105-113 and 184-186).
\* Encode! of these derived CandidType values and Principal::from_text of
\* the governance constant are taken to succeed: their `?` never returns.
CallSign ==
    /\ pc = "if"
    /\ block <= NumBlocks
    /\ BlockCond(opts, block)
    /\ args' = BlockArgs(opts, block)
    /\ trace' = Append(trace,
                  SignCall(pem, GOVERNANCE_CANISTER_ID, "manage_neuron", args'))
    /\ pc' = "sign"
    /\ UNCHANGED <<pem, opts, block, msg_with_req_id, msgs, result, idl_vars>>

\* sign returns Err: `?` in generate and `?` in exec return it (lines 186, 113).
SignFails ==
    /\ pc = "sign"
    /\ \E r \in SignErr :
         /\ trace' = Append(trace, Ret("sign", r))
         /\ result' = Err(r.error)
    /\ pc' = "done"
    /\ UNCHANGED <<pem, opts, block, args, msg_with_req_id, msgs, idl_vars>>

\* generate turning the missing identifier into an error value.
SignReturnsNoRequestIdAsErr ==
    /\ pc = "sign"
    /\ \E r \in SignOkWithoutId(pem, GOVERNANCE_CANISTER_ID, "manage_neuron", args) :
         /\ trace' = Append(trace, Ret("sign", r))
         /\ msg_with_req_id' = Some(r)
    /\ result' = Err("No request id for transfer call found")
    /\ pc' = "done"
    /\ UNCHANGED <<pem, opts, block, args, msgs, idl_vars>>

\* sign returns Ok without a request identifier: expect panics (lines 187-189).
SignReturnsNoRequestId ==
    /\ pc = "sign"
    /\ \E r \in SignOkWithoutId(pem, GOVERNANCE_CANISTER_ID, "manage_neuron", args) :
         /\ trace' = Append(trace, Ret("sign", r))
         /\ msg_with_req_id' = Some(r)
    /\ result' = Panic("No request id for transfer call found")
    /\ pc' = "done"
    /\ UNCHANGED <<pem, opts, block, args, msgs, idl_vars>>

\* generate deriving the identifier anew instead of using the returned one.
SignReturnsRecomputedId ==
    /\ pc = "sign"
    /\ \E r \in SignOkWithId(pem, GOVERNANCE_CANISTER_ID, "manage_neuron", args) :
         /\ msg_with_req_id' = Some(r)
         /\ trace' = trace \o
              << Ret("sign", r),
                 StatusCall(pem,
                            RequestIdOf(GOVERNANCE_CANISTER_ID, "manage_neuron", args, 1),
                            GOVERNANCE_CANISTER_ID) >>
    /\ pc' = "request_status"
    /\ UNCHANGED <<pem, opts, block, args, msgs, result, idl_vars>>

\* sign returns Ok with a request identifier: generate goes on to its second
\* await, the call of request_status::sign (lines 186-190).
SignReturns ==
    /\ pc = "sign"
    /\ \E r \in SignOkWithId(pem, GOVERNANCE_CANISTER_ID, "manage_neuron", args) :
         /\ msg_with_req_id' = Some(r)
         /\ trace' = trace \o
              << Ret("sign", r),
                 StatusCall(pem, r.request_id[1], GOVERNANCE_CANISTER_ID) >>
    /\ pc' = "request_status"
    /\ UNCHANGED <<pem, opts, block, args, msgs, result, idl_vars>>

\* exec dropping the failed payload and going on with the next if-block.
RequestStatusFailsSkipped ==
    /\ pc = "request_status"
    /\ \E r \in StatusErr : trace' = Append(trace, Ret("request_status", r))
    /\ block' = block + 1
    /\ pc' = "if"
    /\ UNCHANGED <<pem, opts, args, msg_with_req_id, msgs, result, idl_vars>>

\* request_status::sign returns Err: `?` twice (lines 190, 113).
RequestStatusFails ==
    /\ pc = "request_status"
    /\ \E r \in StatusErr :
         /\ trace' = Append(trace, Ret("request_status", r))
         /\ result' = Err(r.error)
    /\ pc' = "done"
    /\ UNCHANGED <<pem, opts, block, args, msg_with_req_id, msgs, idl_vars>>

\* request_status::sign returns Ok: generate builds the entry, exec pushes
\* it and goes on to the next if-block (lines 192-199, 113).
RequestStatusReturns ==
    /\ pc = "request_status"
    /\ \E r \in StatusOk(pem, trace[Len(trace)].request_id, GOVERNANCE_CANISTER_ID) :
         /\ trace' = Append(trace, Ret("request_status", r))
         /\ msgs' = Append(msgs, GenerateOut(msg_with_req_id[1].buffer, r.text))
    /\ block' = block + 1
    /\ pc' = "if"
    /\ UNCHANGED <<pem, opts, args, msg_with_req_id, result, idl_vars>>

\* exec without the is_empty test.
ReturnEmptyArtifact ==
    /\ pc = "if"
    /\ block = NumBlocks + 1
    /\ msgs = <<>>
    /\ result' = Ok(ExecOut(msgs))
    /\ pc' = "done"
    /\ UNCHANGED <<pem, opts, block, args, msg_with_req_id, msgs, trace, idl_vars>>

\* After the six blocks: msgs.is_empty() (lines 171-173).
ReturnNoInstructions ==
    /\ pc = "if"
    /\ block = NumBlocks + 1
    /\ msgs = <<>>
    /\ result' = Err("No instructions provided")
    /\ pc' = "done"
    /\ UNCHANGED <<pem, opts, block, args, msg_with_req_id, msgs, trace, idl_vars>>

\* After the six blocks: the artifact (lines 175-180).
ReturnArtifact ==
    /\ pc = "if"
    /\ block = NumBlocks + 1
    /\ msgs # <<>>
    /\ result' = Ok(ExecOut(msgs))
    /\ pc' = "done"
    /\ UNCHANGED <<pem, opts, block, args, msg_with_req_id, msgs, trace, idl_vars>>

Next ==
    \/ SkipBlock
    \/ CallSign
    \/ SignFails
    \/ SignReturnsNoRequestId
    \/ SignReturns
    \/ RequestStatusFails
    \/ RequestStatusReturns
    \/ ReturnNoInstructions
    \/ ReturnArtifact

Spec == Init /\ [][Next]_vars


(***************************************************************************)
(* lib/mod.rs: get_idl_string and what it calls.                           *)
(*                                                                         *)
(* The bundled interface texts (candid/governance.did, candid/ledger.did)  *)
(* are build inputs: `schema` says how far the text of a known canister    *)
(* gets through from_utf8, pretty_parse and check_prog, and                *)
(* BundledMethods which methods its service has.                           *)
(***************************************************************************)
\* Longest run of bytes after the Candid magic in an input blob.
MaxTailLen == 4

DIDL == <<68, 73, 68, 76>>
TailBytes == {0, 1, 126}
Tails == UNION { [1..n -> TailBytes] : n \in 0..MaxTailLen }
Blobs == { DIDL \o t : t \in Tails } \cup { <<>>, <<68, 73>>, <<68, 73, 68, 0, 0, 0>> }

CanisterIds == {GOVERNANCE_CANISTER_ID, LEDGER_CANISTER_ID, "aaaaa-aa"}
MethodNames == {"manage_neuron", "send_dfx"}
Parts == {"args", "rets"}
OutputTypes == {"raw", "idl", "pp", "json", "RAW"}
SchemaKinds == {"not_utf8", "parse_error", "check_error", "no_actor", "ok"}

\* The methods of a bundled text's service, and their signatures.
BundledMethods(cid) ==
    IF cid = GOVERNANCE_CANISTER_ID THEN {"manage_neuron"} ELSE {"send_dfx"}

BundledFunction(cid, m) ==
    IF cid = GOVERNANCE_CANISTER_ID
    THEN [args |-> <<"bool">>, rets |-> <<"bool", "bool">>]
    ELSE [args |-> <<>>, rets |-> <<"bool">>]

GetLocalCandidDefaulting(cid) ==
    IF schema = "not_utf8" THEN None
    ELSE IF cid = LEDGER_CANISTER_ID THEN Some([of |-> cid])
    ELSE Some([of |-> GOVERNANCE_CANISTER_ID])

\* get_local_candid: the bundled text of a known canister.
get_local_candid(cid) ==
    IF cid \in {GOVERNANCE_CANISTER_ID, LEDGER_CANISTER_ID}
    THEN IF schema = "not_utf8" THEN None ELSE Some([of |-> cid])
    ELSE None

\* get_candid_type: pretty_parse, check_prog, the actor, get_method, each
\* failure giving None.
get_candid_type(idl, m) ==
    IF schema = "parse_error" THEN None
    ELSE IF schema = "check_error" THEN None
    ELSE IF schema = "no_actor" THEN None
    ELSE IF m \notin BundledMethods(idl.of) THEN None
    ELSE Some([env |-> idl.of, func |-> BundledFunction(idl.of, m)])

\* hex::encode
HexDigits == <<"0", "1", "2", "3", "4", "5", "6", "7", "8", "9",
               "a", "b", "c", "d", "e", "f">>

RECURSIVE HexEncode(_)
HexEncode(bytes) ==
    IF bytes = <<>> THEN <<>>
    ELSE <<HexDigits[(bytes[1] \div 16) + 1], HexDigits[(bytes[1] % 16) + 1]>>
         \o HexEncode(Tail(bytes))

(***************************************************************************)
(* candid::IDLArgs::from_bytes and from_bytes_with_types on the blobs of   *)
(* the model: the magic, the length of the type table, the number of       *)
(* arguments, their types, their values.  Every byte of the model is below *)
(* 128, so each LEB128 number is one byte.  0x7e is bool; 0 and 1 as a     *)
(* type are indices into the type table; no byte of the model is the       *)
(* opcode of a constructed type, so a non-empty type table is malformed.   *)
(***************************************************************************)
DecodeErr(e) == [ok |-> FALSE, error |-> e]
DecodeOk(vs) == [ok |-> TRUE, args |-> vs]

BoolValue(b) == IF b = 1 THEN "true" ELSE "false"

\* The header of a blob: its argument types and the bytes of its values.
Header(bytes) ==
    IF Len(bytes) < 4 \/ SubSeq(bytes, 1, 4) # DIDL
        THEN DecodeErr("wrong magic number")
    ELSE IF Len(bytes) < 5 THEN DecodeErr("unexpected end of message")
    ELSE IF bytes[5] # 0 THEN DecodeErr("unsupported op_code in type table")
    ELSE IF Len(bytes) < 6 THEN DecodeErr("unexpected end of message")
    ELSE IF Len(bytes) < 6 + bytes[6] THEN DecodeErr("unexpected end of message")
    ELSE IF \E i \in 7..(6 + bytes[6]) : bytes[i] # 126
        THEN DecodeErr("type index out of range")
    ELSE [ok |-> TRUE,
          types |-> [i \in 1..bytes[6] |-> "bool"],
          values |-> SubSeq(bytes, 7 + bytes[6], Len(bytes))]

\* The values of a blob whose header is h.
Values(h) ==
    IF Len(h.values) < Len(h.types) THEN DecodeErr("unexpected end of message")
    ELSE IF \E i \in 1..Len(h.types) : h.values[i] \notin {0, 1}
        THEN DecodeErr("expect 00 or 01")
    ELSE IF Len(h.values) > Len(h.types)
        THEN DecodeErr("trailing value after finishing deserialization")
    ELSE DecodeOk([i \in 1..Len(h.types) |-> BoolValue(h.values[i])])

\* candid::IDLArgs::from_bytes
from_bytes(bytes) ==
    LET h == Header(bytes) IN IF h.ok THEN Values(h) ELSE h

\* candid::IDLArgs::from_bytes_with_types
from_bytes_with_types(bytes, env, types) ==
    LET h == Header(bytes)
    IN  IF ~h.ok THEN h
        ELSE IF h.types # types THEN DecodeErr("type mismatch")
        ELSE Values(h)

\* format!("{:?}", args) and format!("{}", args)
FormatDebug(a) == <<"{:?}">> \o a.args
FormatDisplay(a) == <<"{}">> \o a.args

(***************************************************************************)
(* get_idl_string as a state machine: the resolution of the type (lines    *)
(* 38-39), then the arm of the match that output_type selects.             *)
(***************************************************************************)
ExecIdle ==
    /\ pem = None /\ opts = <<>> /\ pc = "idle" /\ block = 0 /\ args = <<>>
    /\ msg_with_req_id = None /\ msgs = <<>> /\ trace = <<>> /\ result = Running

IdlInit ==
    /\ blob \in Blobs
    /\ canister_id \in CanisterIds
    /\ method_name \in MethodNames
    /\ part \in Parts
    /\ output_type \in OutputTypes
    /\ schema \in SchemaKinds
    /\ ipc = "start"
    /\ method_type = None
    /\ idl_result = Running

InitIdl == ExecIdle /\ IdlInit

\* Lines 38-39.
ResolveType ==
    /\ ipc = "start"
    /\ method_type' =
         LET spec == get_local_candid(canister_id)
         IN  IF spec = None THEN None ELSE get_candid_type(spec[1], method_name)
    /\ ipc' = "resolved"
    /\ UNCHANGED <<blob, canister_id, method_name, part, output_type, schema,
                   idl_result, exec_vars>>

\* Raw mode that decodes before it encodes.
RenderRawAfterDecode ==
    /\ ipc = "resolved"
    /\ output_type = "raw"
    /\ idl_result' = IF from_bytes(blob).ok THEN Ok(HexEncode(blob))
                     ELSE Err(from_bytes(blob).error)
    /\ ipc' = "done"
    /\ UNCHANGED <<blob, canister_id, method_name, part, output_type, schema,
                   method_type, exec_vars>>

\* The arm "raw" (lines 41-44).
RenderRaw ==
    /\ ipc = "resolved"
    /\ output_type = "raw"
    /\ idl_result' = Ok(HexEncode(blob))
    /\ ipc' = "done"
    /\ UNCHANGED <<blob, canister_id, method_name, part, output_type, schema,
                   method_type, exec_vars>>

\* The decoding of lines 46-57.
Decoded ==
    IF method_type = None THEN from_bytes(blob)
    ELSE from_bytes_with_types(blob, method_type[1].env,
             IF part = "args" THEN method_type[1].func.args
             ELSE method_type[1].func.rets)

\* The arm "idl" | "pp" (lines 45-63).
RenderDecoded ==
    /\ ipc = "resolved"
    /\ output_type \in {"idl", "pp"}
    /\ idl_result' =
         IF ~Decoded.ok THEN Err(Decoded.error)
         ELSE IF output_type = "idl" THEN Ok(FormatDebug(Decoded))
         ELSE Ok(FormatDisplay(Decoded))
    /\ ipc' = "done"
    /\ UNCHANGED <<blob, canister_id, method_name, part, output_type, schema,
                   method_type, exec_vars>>

\* An invalid mode reported only after the bytes were decoded.
InvalidOutputTypeAfterDecode ==
    /\ ipc = "resolved"
    /\ output_type \notin {"raw", "idl", "pp"}
    /\ idl_result' = IF ~Decoded.ok THEN Err(Decoded.error)
                     ELSE Err("Invalid output type: " \o output_type)
    /\ ipc' = "done"
    /\ UNCHANGED <<blob, canister_id, method_name, part, output_type, schema,
                   method_type, exec_vars>>

\* The last arm (line 64).
InvalidOutputType ==
    /\ ipc = "resolved"
    /\ output_type \notin {"raw", "idl", "pp"}
    /\ idl_result' = Err("Invalid output type: " \o output_type)
    /\ ipc' = "done"
    /\ UNCHANGED <<blob, canister_id, method_name, part, output_type, schema,
                   method_type, exec_vars>>

NextIdl ==
    \/ ResolveType
    \/ RenderRaw
    \/ RenderDecoded
    \/ InvalidOutputType

SpecIdl == InitIdl /\ [][NextIdl]_vars

(***************************************************************************)
(* Vocabulary of the properties of exec.                                   *)
(***************************************************************************)
\* The intents in their fixed emission order.
IntentOrder ==
    <<"AddHotKey", "RemoveHotKey", "StopDissolving", "StartDissolving",
      "IncreaseDissolveDelay", "Disburse">>

IntentActive(o, k) ==
    CASE k = "AddHotKey" -> o.add_hot_key # None
      [] k = "RemoveHotKey" -> o.remove_hot_key # None
      [] k = "StopDissolving" -> o.stop_dissolving = TRUE
      [] k = "StartDissolving" -> o.start_dissolving = TRUE
      [] k = "IncreaseDissolveDelay" -> o.additional_dissolve_delay_seconds # None
      [] k = "Disburse" -> o.disburse = TRUE

ActiveIntents(o) == SelectSeq(IntentOrder, LAMBDA k : IntentActive(o, k))

\* The payload an intent stands for: the neuron identifier and the intent's
\* own value, nothing else.
IntentCommand(k, own) ==
    CASE k = "AddHotKey" ->
           [tag |-> "Configure", val |-> [operation |->
              <<[tag |-> "AddHotKey", val |-> [new_hot_key |-> own]]>>]]
      [] k = "RemoveHotKey" ->
           [tag |-> "Configure", val |-> [operation |->
              <<[tag |-> "RemoveHotKey", val |-> [hot_key_to_remove |-> own]]>>]]
      [] k = "StopDissolving" ->
           [tag |-> "Configure", val |-> [operation |->
              <<[tag |-> "StopDissolving", val |-> <<>>]>>]]
      [] k = "StartDissolving" ->
           [tag |-> "Configure", val |-> [operation |->
              <<[tag |-> "StartDissolving", val |-> <<>>]>>]]
      [] k = "IncreaseDissolveDelay" ->
           [tag |-> "Configure", val |-> [operation |->
              <<[tag |-> "IncreaseDissolveDelay",
                 val |-> [additional_dissolve_delay_seconds |-> own[1]]]>>]]
      [] k = "Disburse" ->
           [tag |-> "Disburse", val |-> [to_account |-> <<>>, amount |-> <<>>]]

OwnValue(o, k) ==
    CASE k = "AddHotKey" -> o.add_hot_key
      [] k = "RemoveHotKey" -> o.remove_hot_key
      [] k = "IncreaseDissolveDelay" -> o.additional_dissolve_delay_seconds
      [] OTHER -> <<>>

IntentPayload(neuron, k, own) ==
    <<"DIDL", [id |-> <<[id |-> neuron]>>, command |-> <<IntentCommand(k, own)>>]>>

\* The intent a payload carries.
KindOf(a) ==
    LET c == a[2].command[1]
    IN  IF c.tag = "Configure" THEN c.val.operation[1].tag ELSE c.tag

IsCall(e, f) == e.ev = "call" /\ e.fn = f
IsRet(e, f) == e.ev = "ret" /\ e.fn = f
SignCalls == SelectSeq(trace, LAMBDA e : IsCall(e, "sign"))
SignRets == SelectSeq(trace, LAMBDA e : IsRet(e, "sign"))
StatusCalls == SelectSeq(trace, LAMBDA e : IsCall(e, "request_status"))

\* The artifact as text: "[", then five tokens per entry, "," between
\* entries, "]".
EntryOpen == "{ \"ingress\": "
EntryCount(t) == Cardinality({i \in 1..Len(t) : t[i] = EntryOpen})
Entry(t, i) == SubSeq(t, 6 * i - 4, 6 * i)

\* C1: whenever exec returns an artifact, it holds as many entries as there
\* are active intents, and the i-th entry is the one built for the i-th
\* active intent in the order add-hot-key, remove-hot-key, stop-dissolving,
\* start-dissolving, increase-dissolve-delay, disburse.
C1_EntriesMatchActiveIntents ==
    result.kind = "ok" =>
        LET t == result.value
            want == ActiveIntents(opts)
            calls == SignCalls
            rets == SignRets
        IN  /\ Len(want) >= 1
            /\ EntryCount(t) = Len(want)
            /\ Len(calls) = Len(want)
            /\ Len(rets) = Len(want)
            /\ \A i \in 1..Len(want) :
                 /\ KindOf(calls[i].args) = want[i]
                 /\ rets[i].result.ok
                 /\ Entry(t, i)[2] = rets[i].result.buffer

C1_Witness ==
    /\ result.kind = "ok"
    /\ Len(ActiveIntents(opts)) = 6
    /\ EntryCount(result.value) = 6

\* C2: with no active intent, exec fails with "No instructions provided",
\* returns no artifact and never calls either signer.
C2_NoInstructions ==
    ActiveIntents(opts) = <<>> =>
        /\ trace = <<>>
        /\ result.kind \in {"running", "err"}
        /\ result.kind = "err" => result.error = "No instructions provided"
        /\ pc = "done" => result = Err("No instructions provided")
        /\ pc # "done" => ENABLED Next

C2_Witness ==
    /\ ActiveIntents(opts) = <<>>
    /\ pc = "done"
    /\ result = Err("No instructions provided")
    /\ trace = <<>>

\* C3: when a signer call fails, nothing follows it: the call is the last
\* signer event of the run (no retry, no call for a later intent), and exec
\* has returned that error unchanged, not an artifact.
C3_SignerFailureAborts ==
    \A i \in 1..Len(trace) :
        (trace[i].ev = "ret" /\ ~trace[i].result.ok) =>
            /\ i = Len(trace)
            /\ pc = "done"
            /\ result = Err(trace[i].result.error)

C3_Witness ==
    /\ Len(trace) = 8
    /\ IsRet(trace[8], "request_status")
    /\ ~trace[8].result.ok
    /\ msgs # <<>>
    /\ block < NumBlocks
    /\ \E b \in (block + 1)..NumBlocks : IntentActive(opts, IntentOrder[b])
    /\ result.kind = "err"

\* C4: the signer events of a run come in rounds of four, one round per
\* payload: sign is called, sign returns, request_status is called with the
\* request identifier just returned and the canister identifier of the sign
\* call (governance), request_status returns; only then the next round.
C4_TwoStepPipeline ==
    \A i \in 1..Len(trace) :
        LET e == trace[i]
        IN  CASE i % 4 = 1 ->
                   /\ IsCall(e, "sign")
                   /\ e.canister_id = GOVERNANCE_CANISTER_ID
                   /\ i > 1 => trace[i - 1].result.ok
              [] i % 4 = 2 -> IsRet(e, "sign")
              [] i % 4 = 3 ->
                   /\ IsCall(e, "request_status")
                   /\ trace[i - 1].result.ok
                   /\ trace[i - 1].result.request_id = <<e.request_id>>
                   /\ e.canister_id = trace[i - 2].canister_id
                   /\ e.pem = trace[i - 2].pem
              [] OTHER -> IsRet(e, "request_status")

C4_Witness ==
    /\ Len(trace) >= 11
    /\ IsCall(trace[11], "request_status")
    /\ trace[11].request_id # trace[7].request_id
    /\ trace[7].request_id # trace[3].request_id

\* C5: when sign returns an envelope without a request identifier, nothing
\* follows it: request_status is not called for it, no later payload is
\* signed, and exec has ended by a panic, with neither an error value nor
\* an artifact.
C5_MissingRequestIdPanics ==
    \A i \in 1..Len(trace) :
        (IsRet(trace[i], "sign") /\ trace[i].result.ok
            /\ trace[i].result.request_id = None) =>
            /\ i = Len(trace)
            /\ pc = "done"
            /\ result = Panic("No request id for transfer call found")

C5_Witness ==
    /\ Len(trace) = 6
    /\ IsRet(trace[6], "sign")
    /\ trace[6].result.ok
    /\ trace[6].result.request_id = None
    /\ msgs # <<>>
    /\ \E b \in (block + 1)..NumBlocks : IntentActive(opts, IntentOrder[b])
    /\ result.kind = "panic"

\* C6: the payloads handed to sign are, in order, those of the active
\* intents: each carries opts.neuron_id and the command of its intent,
\* built from that intent's own value alone.
C6_PayloadPerIntent ==
    LET want == ActiveIntents(opts)
        calls == SignCalls
    IN  /\ Len(calls) <= Len(want)
        /\ \A i \in 1..Len(calls) :
             /\ calls[i].args =
                    IntentPayload(opts.neuron_id, want[i], OwnValue(opts, want[i]))
             /\ calls[i].method_name = "manage_neuron"

C6_Witness ==
    /\ Len(SignCalls) = 6
    /\ opts.add_hot_key # None
    /\ opts.remove_hot_key # None
    /\ opts.add_hot_key # opts.remove_hot_key

\* The text request_status returned for request identifier rid.
StatusTextsFor(rid) ==
    { trace[j + 1].result.text : j \in
        { k \in 1..(Len(trace) - 1) :
            /\ IsCall(trace[k], "request_status")
            /\ trace[k].request_id = rid
            /\ IsRet(trace[k + 1], "request_status")
            /\ trace[k + 1].result.ok } }

\* C7: an artifact is "[", the entries separated by ",", "]"; the i-th
\* entry is { "ingress": B, "request_status": S} with B the text sign
\* returned for the i-th payload and S the text request_status returned for
\* the request identifier of that same payload.
C7_ArtifactFormat ==
    result.kind = "ok" =>
        LET t == result.value
            rets == SignRets
            n == Len(rets)
        IN  /\ n >= 1
            /\ Len(t) = 6 * n + 1
            /\ t[1] = "["
            /\ t[Len(t)] = "]"
            /\ \A i \in 1..(n - 1) : t[6 * i + 1] = ","
            /\ \A i \in 1..n :
                 LET r == rets[i].result
                 IN  /\ r.ok /\ r.request_id # None
                     /\ StatusTextsFor(r.request_id[1]) # {}
                     /\ \E s \in StatusTextsFor(r.request_id[1]) :
                          Entry(t, i) =
                             <<"{ \"ingress\": ", r.buffer,
                               ", \"request_status\": ", s, "}">>

C7_Witness ==
    /\ result.kind = "ok"
    /\ Len(SignRets) = 3
    /\ Len(result.value) = 19

(***************************************************************************)
(* Vocabulary of the properties of get_idl_string.                         *)
(***************************************************************************)
\* The causes of a resolution miss.
ResolutionMiss ==
    \/ canister_id \notin {GOVERNANCE_CANISTER_ID, LEDGER_CANISTER_ID}
    \/ schema \in {"parse_error", "check_error"}
    \/ method_name \notin BundledMethods(canister_id)

\* A blob of the model that is well-formed Candid: the magic, an empty type
\* table, n arguments of type bool, n bytes that are 0 or 1.
WellFormed(b) ==
    /\ Len(b) >= 6
    /\ SubSeq(b, 1, 4) = <<68, 73, 68, 76>>
    /\ b[5] = 0
    /\ Len(b) = 6 + 2 * b[6]
    /\ \A i \in 7..(6 + b[6]) : b[i] = 126
    /\ \A i \in (7 + b[6])..Len(b) : b[i] \in {0, 1}

\* What untyped decoding of b gives in mode m.
UntypedRendering(m, b) ==
    LET d == from_bytes(b)
    IN  IF d.ok THEN Ok(<<IF m = "idl" THEN "{:?}" ELSE "{}">> \o d.args)
        ELSE Err(d.error)

\* text is the lower-case hexadecimal encoding of b.
IsHexOf(text, b) ==
    /\ Len(text) = 2 * Len(b)
    /\ \A i \in 1..Len(b) :
         /\ text[2 * i - 1] = HexDigits[(b[i] \div 16) + 1]
         /\ text[2 * i] = HexDigits[(b[i] % 16) + 1]

\* C8: in mode idl or pp, when the resolution misses (or gives no binding
\* for any other reason), there is no binding and no resolution error: the
\* result is that of untyped decoding, Ok for every well-formed blob, and an
\* error only when the bytes do not decode.
C8_MissFallsBackToUntyped ==
    (ipc = "done" /\ output_type \in {"idl", "pp"}
        /\ (ResolutionMiss \/ method_type = None)) =>
        /\ method_type = None
        /\ idl_result = UntypedRendering(output_type, blob)
        /\ WellFormed(blob) => idl_result.kind = "ok"
        /\ idl_result.kind = "err" => ~from_bytes(blob).ok

C8_Witness ==
    /\ ipc = "done"
    /\ output_type = "pp"
    /\ canister_id = "aaaaa-aa"
    /\ method_name = "manage_neuron"
    /\ part = "rets"
    /\ schema = "ok"
    /\ blob = <<68, 73, 68, 76, 0, 1, 126, 1>>
    /\ idl_result = Ok(<<"{}", "true">>)

\* C9: in mode raw the result is Ok with the hexadecimal encoding of the
\* blob, a function of the bytes alone: canister, method, part, binding and
\* decodability play no part.
C9_RawIsHex ==
    (ipc = "done" /\ output_type = "raw") =>
        /\ idl_result.kind = "ok"
        /\ IsHexOf(idl_result.value, blob)

C9_Witness ==
    /\ ipc = "done"
    /\ output_type = "raw"
    /\ method_type # None
    /\ ~from_bytes(blob).ok
    /\ blob = <<68, 73, 68, 76, 126>>
    /\ idl_result = Ok(<<"4", "4", "4", "9", "4", "4", "4", "c", "7", "e">>)

\* C10: a mode other than raw, idl and pp gives the error value "Invalid
\* output type: <mode>", whatever the other inputs are and whether or not
\* the blob decodes.
C10_InvalidOutputType ==
    (ipc = "done" /\ output_type \notin {"raw", "idl", "pp"}) =>
        idl_result = Err("Invalid output type: " \o output_type)

C10_Witness ==
    /\ ipc = "done"
    /\ output_type = "json"
    /\ ~from_bytes(blob).ok
    /\ method_type # None
    /\ idl_result = Err("Invalid output type: json")

=============================================================================
